---- MODULE Spec2Model ----
(***************************************************************************)
(* Model of the retrieval and conversation core of LLM-ChatBot-Demo:       *)
(*   - HybridRetriever.retrieve / HybridRetriever.rerank                   *)
(*     (app/core/retrievers/hybrid_retriever.py)                           *)
(*   - DashScopeReranker.rerank (app/core/retrievers/reranker.py)          *)
(*   - ConversationChain, CustomRetriever, AliyunLLM                       *)
(*     (app/core/chains/conversation_chain.py, app/utils/aliyun_llm.py)    *)
(*   - the /chat and /clear_context endpoints (app/api/routers/chat.py)    *)
(*                                                                         *)
(* Scores are floats in the program.  Raw hit scores are modelled as       *)
(* integers in tenths, weights as integers in tenths, fused scores         *)
(* therefore in hundredths (0.9 * 0.7 = 0.63 is 9 * 7 = 63).               *)
(***************************************************************************)
EXTENDS Integers, Sequences, FiniteSets, TLC

VARIABLES
    \* ---- one HybridRetriever and the request it is serving ----
    vector_weight,      \* self.vector_weight
    keyword_weight,     \* self.keyword_weight
    pc,                 \* position of the retrieve coroutine
    query,              \* argument query (sequence of characters)
    top_k,              \* argument top_k
    min_score,          \* kwargs.get("min_score", 0.0)
    vector_results,     \* vector_results["hits"]["hits"]
    keyword_results,    \* keyword_results["hits"]["hits"]
    all_docs,           \* local all_docs
    result,             \* the list returned to the caller
    error,              \* the exception raised to the caller
    trace,              \* external calls issued / completed, in order
    \* ---- the chat router and its sessions ----
    conversation_chains,\* session id -> ConversationChain
    last_turn,          \* what the last endpoint call did
    response,           \* what the last endpoint call sent to the user
    es_request,         \* the search the last endpoint call sent to Elasticsearch
    pending,            \* /chat calls suspended at await chain.get_response
    \* ---- direct calls of rerank ----
    rerank_response,    \* output["results"] of the last 200 answer to a direct call
    \* ---- the recommendations router ----
    shown_question_ids, \* the module-level set shown_question_ids
    recommendations,    \* ids of the last response, in order
    rec_call,           \* arguments and outcome of the last call
    \* ---- one ResourceManager ----
    max_connections,    \* self.max_connections
    es_clients,         \* self._es_clients: key -> {client, last_used}
    last_cleanup,       \* self._last_cleanup
    now,                \* datetime.now(), in seconds since construction
    next_client,        \* number the next Elasticsearch(...) object gets
    closed,             \* clients whose close() has returned
    open_sessions,      \* es_session blocks that have not been left
    rm_last,            \* the last ResourceManager call and what it returned
    last_returned       \* client of the last get since the last removal

rvars == <<vector_weight, keyword_weight, pc, query, top_k, min_score,
           vector_results, keyword_results, all_docs, result, error, trace>>
cvars == <<conversation_chains, last_turn, response, es_request, pending>>
dvars == <<rerank_response>>
qvars == <<shown_question_ids, recommendations, rec_call>>
mvars == <<max_connections, es_clients, last_cleanup, now, next_client, closed,
           open_sessions, rm_last, last_returned>>
ovars == <<qvars, mvars>>
vars  == <<rvars, cvars, dvars, ovars>>

----------------------------------------------------------------------------
(* Bounds *)

MaxTopK == 2

(* Python's None (scores are never negative) *)
None == -1

(* The corpus: document ids, with the _source fields of each. *)
DocIds == {"A", "B", "C"}

Content(id) == CASE id = "A" -> "content A"
                 [] id = "B" -> "content B"
                 [] OTHER    -> "content C"

Title(id) == CASE id = "A" -> "title A"
               [] id = "B" -> "title B"
               [] OTHER    -> ""

(* Raw scores the two searches can report (tenths). *)
VectorScores  == {5, 9}
KeywordScores == {60, 80}

(* min_score values a caller passes (hundredths); 0 is the default. *)
MinScores == {0, 100}

(* Queries: sequences of characters. *)
Queries == { <<>>, <<" ", " ">>, <<" ", "q">> }
TopKs   == 0 .. MaxTopK

----------------------------------------------------------------------------
(* str.strip(): remove leading and trailing whitespace. *)

IsSpace(c) == c \in {" ", "\t", "\n"}

RECURSIVE LStrip(_)
LStrip(s) == IF s = <<>> THEN <<>>
             ELSE IF IsSpace(Head(s)) THEN LStrip(Tail(s)) ELSE s

RECURSIVE RStrip(_)
RStrip(s) == IF s = <<>> THEN <<>>
             ELSE IF IsSpace(s[Len(s)]) THEN RStrip(SubSeq(s, 1, Len(s) - 1))
             ELSE s

(* a validation that forgets to trim *)
strip_untrimmed(s) == s

strip(s) == RStrip(LStrip(s))

(* Python slicing xs[:n] for n >= 0 *)
Take(xs, n) == SubSeq(xs, 1, IF n < Len(xs) THEN n ELSE Len(xs))

(* `x or 0` on an Optional[float] *)
OrZero(x) == IF x = None THEN 0 ELSE x

----------------------------------------------------------------------------
(* Elasticsearch hit lists: at most `size` hits, distinct _id, ordered by  *)
(* _score descending.                                                      *)

Hit(id, sc) == [_id |-> id, _score |-> sc, content |-> Content(id), title |-> Title(id)]

Min(a, b) == IF a < b THEN a ELSE b

HitLists(scores, size) ==
    UNION { { h \in [1..n -> {Hit(id, sc) : id \in DocIds, sc \in scores}] :
                /\ \A i, j \in 1..n : i # j => h[i]._id # h[j]._id
                /\ \A i \in 1..(n-1) : h[i]._score >= h[i+1]._score }
            : n \in 0 .. Min(size, Cardinality(DocIds)) }

----------------------------------------------------------------------------
(* Fusion: the two loops of HybridRetriever.retrieve.                      *)

SeenIds(docs) == { docs[i].id : i \in 1..Len(docs) }

VectorDoc(hit, vw) ==
    [id |-> hit._id, content |-> hit.content, title |-> hit.title,
     score |-> hit._score * vw,
     vector_score |-> hit._score, keyword_score |-> None, rerank_score |-> None]

(* a keyword document whose score is the raw score, not scaled *)
KeywordDoc_unscaled(hit, kw) ==
    [id |-> hit._id, content |-> hit.content, title |-> hit.title,
     score |-> hit._score,
     vector_score |-> None, keyword_score |-> hit._score, rerank_score |-> None]

KeywordDoc(hit, kw) ==
    [id |-> hit._id, content |-> hit.content, title |-> hit.title,
     score |-> hit._score * kw,
     vector_score |-> None, keyword_score |-> hit._score, rerank_score |-> None]

(* an update that overwrites the score instead of adding to it *)
UpdateScore_overwrite(doc, hit, vw, kw) ==
    hit._score * kw

UpdateScore(doc, hit, vw, kw) ==
    OrZero(doc.vector_score) * vw + hit._score * kw

UpdateDoc(doc, hit, vw, kw) ==
    [doc EXCEPT !.keyword_score = hit._score,
                !.score = UpdateScore(doc, hit, vw, kw)]

(* index of the first document with the id (the inner for ... break) *)
FirstIndex(docs, id) == CHOOSE i \in 1..Len(docs) :
    /\ docs[i].id = id
    /\ \A j \in 1..(i-1) : docs[j].id # id

RECURSIVE ProcessVectorHits(_, _, _)
ProcessVectorHits(hits, docs, vw) ==
    IF hits = <<>> THEN docs
    ELSE LET hit == Head(hits)
         IN IF hit._id \notin SeenIds(docs)
            THEN ProcessVectorHits(Tail(hits), Append(docs, VectorDoc(hit, vw)), vw)
            ELSE ProcessVectorHits(Tail(hits), docs, vw)

(* a keyword pass that appends every hit without looking at seen_ids *)
RECURSIVE ProcessKeywordHits_appendAlways(_, _, _, _)
ProcessKeywordHits_appendAlways(hits, docs, vw, kw) ==
    IF hits = <<>> THEN docs
    ELSE ProcessKeywordHits_appendAlways(Tail(hits),
             Append(docs, KeywordDoc(Head(hits), kw)), vw, kw)

RECURSIVE ProcessKeywordHits(_, _, _, _)
ProcessKeywordHits(hits, docs, vw, kw) ==
    IF hits = <<>> THEN docs
    ELSE LET hit == Head(hits)
         IN IF hit._id \notin SeenIds(docs)
            THEN ProcessKeywordHits(Tail(hits), Append(docs, KeywordDoc(hit, kw)), vw, kw)
            ELSE LET i == FirstIndex(docs, hit._id)
                 IN ProcessKeywordHits(Tail(hits),
                        [docs EXCEPT ![i] = UpdateDoc(docs[i], hit, vw, kw)], vw, kw)

(* a merge that ends by sorting on score the wrong way round *)
RECURSIVE InsertAscending(_, _)
InsertAscending(sorted, d) ==
    IF sorted = <<>> THEN <<d>>
    ELSE IF Head(sorted).score <= d.score
         THEN <<Head(sorted)>> \o InsertAscending(Tail(sorted), d)
         ELSE <<d>> \o sorted

RECURSIVE SortAscending(_)
SortAscending(docs) ==
    IF docs = <<>> THEN <<>>
    ELSE InsertAscending(SortAscending(SubSeq(docs, 1, Len(docs) - 1)), docs[Len(docs)])

MergeResults_ascending(vhits, khits, vw, kw) ==
    SortAscending(ProcessKeywordHits(khits, ProcessVectorHits(vhits, <<>>, vw), vw, kw))

MergeResults(vhits, khits, vw, kw) ==
    ProcessKeywordHits(khits, ProcessVectorHits(vhits, <<>>, vw), vw, kw)

----------------------------------------------------------------------------
(* DashScopeReranker.rerank                                                *)

(* Scores the rerank service reports, and an id it may report that was     *)
(* never submitted.                                                        *)
RerankScores == {50, 90}
UnknownId    == "Z"

(* pairs: one entry per document with a non-empty content *)
RECURSIVE Pairs(_, _)
Pairs(q, documents) ==
    IF documents = <<>> THEN <<>>
    ELSE LET doc == Head(documents)
         IN IF doc.content = ""
            THEN Pairs(q, Tail(documents))
            ELSE <<[query |-> q, passage |-> doc.content, doc_id |-> doc.id]>>
                 \o Pairs(q, Tail(documents))

(* responses with status 200: output["results"], ordered by score          *)
(* descending, distinct ids; the service was asked for top_k=min(top_k,    *)
(* len(pairs)) but the client does not rely on that.                       *)
RerankResults(pairs, k) ==
    LET ids == { pairs[i].doc_id : i \in 1..Len(pairs) } \cup {UnknownId}
        cell == { [doc_id |-> id, score |-> sc] : id \in ids, sc \in RerankScores }
    IN UNION { { r \in [1..n -> cell] :
                   /\ \A i, j \in 1..n : i # j => r[i].doc_id # r[j].doc_id
                   /\ \A i \in 1..(n-1) : r[i].score >= r[i+1].score }
               : n \in 0 .. Min(k + 1, Cardinality(ids)) }

(* next(doc for doc in documents if doc["id"] == result["doc_id"]) *)
HasOriginal(documents, id) == \E i \in 1..Len(documents) : documents[i].id = id
OriginalDoc(documents, id) == documents[FirstIndex(documents, id)]

(* a copy that is built afresh and forgets where the document came from *)
RerankedDoc_rebuilt(original_doc, res) ==
    [id |-> original_doc.id, content |-> original_doc.content,
     title |-> original_doc.title, score |-> res.score,
     vector_score |-> None, keyword_score |-> None, rerank_score |-> res.score]

(* a copy that overwrites score and leaves rerank_score unset *)
RerankedDoc_scoreOnly(original_doc, res) ==
    [original_doc EXCEPT !.score = res.score]

RerankedDoc(original_doc, res) ==
    [original_doc EXCEPT !.score = res.score, !.rerank_score = res.score]

(* a loop that gives up at the first result whose id was never submitted *)
RECURSIVE RerankedDocs_stopAtUnknown(_, _)
RerankedDocs_stopAtUnknown(documents, results) ==
    IF results = <<>> THEN <<>>
    ELSE LET res == Head(results)
         IN IF HasOriginal(documents, res.doc_id)
            THEN <<RerankedDoc(OriginalDoc(documents, res.doc_id), res)>>
                 \o RerankedDocs_stopAtUnknown(documents, Tail(results))
            ELSE <<>>

(* a loop that keeps a result whose id was never submitted *)
RECURSIVE RerankedDocs_keepUnknown(_, _)
RerankedDocs_keepUnknown(documents, results) ==
    IF results = <<>> THEN <<>>
    ELSE LET res == Head(results)
         IN IF HasOriginal(documents, res.doc_id)
            THEN <<RerankedDoc(OriginalDoc(documents, res.doc_id), res)>>
                 \o RerankedDocs_keepUnknown(documents, Tail(results))
            ELSE <<[id |-> res.doc_id, content |-> "", title |-> "",
                    score |-> res.score, vector_score |-> None,
                    keyword_score |-> None, rerank_score |-> res.score]>>
                 \o RerankedDocs_keepUnknown(documents, Tail(results))

RECURSIVE RerankedDocs(_, _)
RerankedDocs(documents, results) ==
    IF results = <<>> THEN <<>>
    ELSE LET res == Head(results)
         IN IF HasOriginal(documents, res.doc_id)
            THEN <<RerankedDoc(OriginalDoc(documents, res.doc_id), res)>>
                 \o RerankedDocs(documents, Tail(results))
            ELSE RerankedDocs(documents, Tail(results))

(* a success branch that trusts the service to respect top_k *)
RerankSuccess_unsliced(documents, results, k) == RerankedDocs(documents, results)

(* the status_code == 200 branch *)
RerankSuccess(documents, results, k) == RerankedDocs(documents, Take(results, k))

----------------------------------------------------------------------------
(* HybridRetriever.retrieve, one step per statement group between awaits.  *)

NoError == [type |-> "none", msg |-> <<>>]
ValueError(m)   == [type |-> "ValueError",   msg |-> m]
RuntimeError(m) == [type |-> "RuntimeError", msg |-> m]

IndexName == "knowledge_legal"

(* (vector_weight, keyword_weight) a retriever is constructed with, in     *)
(* tenths; 0.7 / 0.3 are the defaults                                      *)
Weights == { <<7, 3>>, <<5, 5>> }

RInit ==
    /\ \E w \in Weights : vector_weight = w[1] /\ keyword_weight = w[2]
    /\ pc = "idle"
    /\ query = <<>>
    /\ top_k = 0
    /\ min_score = 0
    /\ vector_results = <<>>
    /\ keyword_results = <<>>
    /\ all_docs = <<>>
    /\ result = <<>>
    /\ error = NoError
    /\ trace = <<>>

Fail(e) ==
    /\ pc' = "failed"
    /\ error' = e

(* a caller awaits retriever.retrieve(q, k, min_score=ms) *)
Retrieve(q, k, ms) ==
    /\ UNCHANGED <<cvars, dvars, ovars>>
    /\ pc = "idle"
    /\ pc' = "validating"
    /\ query' = q
    /\ top_k' = k
    /\ min_score' = ms
    /\ UNCHANGED <<vector_weight, keyword_weight, vector_results,
                   keyword_results, all_docs, result, error, trace>>

(* lines 58-67: the two checks, then the encode call is issued *)
Validate ==
    /\ UNCHANGED <<cvars, dvars, ovars>>
    /\ pc = "validating"
    /\ IF strip(query) = <<>>
       THEN Fail(ValueError("query empty")) /\ UNCHANGED trace
       ELSE IF top_k < 1
       THEN Fail(ValueError("top_k must be positive")) /\ UNCHANGED trace
       ELSE /\ pc' = "embedding"
            /\ trace' = Append(trace, "embed")
            /\ UNCHANGED error
    /\ UNCHANGED <<vector_weight, keyword_weight, query, top_k, min_score,
                   vector_results, keyword_results, all_docs, result>>

(* an embedding failure that falls back to a keyword-only search *)
EmbedReturn_keywordOnly(ok) ==
    /\ UNCHANGED <<cvars, dvars, ovars>>
    /\ pc = "embedding"
    /\ IF ok
       THEN /\ pc' = "vsearch"
            /\ trace' = Append(trace, "vsearch")
            /\ UNCHANGED error
       ELSE /\ pc' = "ksearch"
            /\ trace' = trace \o <<"embed_failed", "ksearch">>
            /\ UNCHANGED error
    /\ UNCHANGED <<vector_weight, keyword_weight, query, top_k, min_score,
                   vector_results, keyword_results, all_docs, result>>

(* the embedding model returns or raises; on return the vector search is   *)
(* issued (line 68)                                                        *)
EmbedReturn(ok) ==
    /\ UNCHANGED <<cvars, dvars, ovars>>
    /\ pc = "embedding"
    /\ IF ok
       THEN /\ pc' = "vsearch"
            /\ trace' = Append(trace, "vsearch")
            /\ UNCHANGED error
       ELSE /\ Fail(RuntimeError(<<"retrieve error", "embedding failed">>))
            /\ trace' = Append(trace, "embed_failed")
    /\ UNCHANGED <<vector_weight, keyword_weight, query, top_k, min_score,
                   vector_results, keyword_results, all_docs, result>>

SearchOutcomes == {"ok", "NotFoundError", "TransportError"}

(* the trace event of a search that raised *)
SearchFailed(search, outcome) ==
    IF search = "vsearch"
    THEN (IF outcome = "NotFoundError" THEN "vsearch_notfound" ELSE "vsearch_error")
    ELSE (IF outcome = "NotFoundError" THEN "ksearch_notfound" ELSE "ksearch_error")

(* an error handler that reports every failure alike, without its cause *)
SearchError_causeless(outcome) ==
    RuntimeError(<<"retrieve error", "unknown">>)

SearchError(outcome) ==
    IF outcome = "NotFoundError"
    THEN RuntimeError(<<"index missing", IndexName>>)
    ELSE RuntimeError(<<"retrieve error", outcome>>)

(* the vector search returns or raises; on return the keyword search is    *)
(* issued (line 86)                                                        *)
VectorSearchOutcome(outcome, hits) ==
    /\ UNCHANGED <<cvars, dvars, ovars>>
    /\ pc = "vsearch"
    /\ IF outcome = "ok"
       THEN /\ vector_results' = hits
            /\ pc' = "ksearch"
            /\ trace' = trace \o <<"vsearch_done", "ksearch">>
            /\ UNCHANGED error
       ELSE /\ Fail(SearchError(outcome))
            /\ trace' = Append(trace, SearchFailed("vsearch", outcome))
            /\ UNCHANGED vector_results
    /\ UNCHANGED <<vector_weight, keyword_weight, query, top_k, min_score,
                   keyword_results, all_docs, result>>

(* the keyword search returns or raises *)
KeywordSearchOutcome(outcome, hits) ==
    /\ UNCHANGED <<cvars, dvars, ovars>>
    /\ pc = "ksearch"
    /\ IF outcome = "ok"
       THEN /\ keyword_results' = hits
            /\ pc' = "fusing"
            /\ trace' = Append(trace, "ksearch_done")
            /\ UNCHANGED error
       ELSE /\ Fail(SearchError(outcome))
            /\ trace' = Append(trace, SearchFailed("ksearch", outcome))
            /\ UNCHANGED keyword_results
    /\ UNCHANGED <<vector_weight, keyword_weight, query, top_k, min_score,
                   vector_results, all_docs, result>>

(* a merge step that also reranks a list of exactly top_k candidates *)
Fuse_rerankAtTopK ==
    /\ UNCHANGED <<cvars, dvars, ovars>>
    /\ pc = "fusing"
    /\ LET docs == MergeResults(vector_results, keyword_results,
                                vector_weight, keyword_weight)
       IN /\ all_docs' = docs
          /\ IF Len(docs) >= top_k
             THEN IF Pairs(query, docs) = <<>>
                  THEN /\ result' = Take(docs, top_k)
                       /\ pc' = "done"
                       /\ trace' = Append(trace, "rerank_call")
                  ELSE /\ pc' = "reranking"
                       /\ trace' = trace \o <<"rerank_call", "rerank">>
                       /\ UNCHANGED result
             ELSE /\ result' = Take(docs, top_k)
                  /\ pc' = "done"
                  /\ UNCHANGED trace
    /\ UNCHANGED <<vector_weight, keyword_weight, query, top_k, min_score,
                   vector_results, keyword_results, error>>

(* lines 101-147: merge, then either hand over to rerank or return.        *)
(* HybridRetriever.rerank and DashScopeReranker.rerank run up to the       *)
(* service call (their argument checks cannot fire here: the query is      *)
(* non-blank, the list is longer than top_k >= 1).  "rerank_call" is the   *)
(* call of self.rerank, "rerank" the call of the rerank service.           *)
Fuse ==
    /\ UNCHANGED <<cvars, dvars, ovars>>
    /\ pc = "fusing"
    /\ LET docs == MergeResults(vector_results, keyword_results,
                                vector_weight, keyword_weight)
       IN /\ all_docs' = docs
          /\ IF Len(docs) > top_k
             THEN IF Pairs(query, docs) = <<>>
                  THEN /\ result' = Take(docs, top_k)
                       /\ pc' = "done"
                       /\ trace' = Append(trace, "rerank_call")
                  ELSE /\ pc' = "reranking"
                       /\ trace' = trace \o <<"rerank_call", "rerank">>
                       /\ UNCHANGED result
             ELSE /\ result' = Take(docs, top_k)
                  /\ pc' = "done"
                  /\ UNCHANGED trace
    /\ UNCHANGED <<vector_weight, keyword_weight, query, top_k, min_score,
                   vector_results, keyword_results, error>>

RerankOutcomes == {"ok", "rejected", "ApiRequestException"}

(* a rerank failure that goes back to the fusion step to try again *)
RerankOutcome_retry(outcome, results) ==
    /\ UNCHANGED <<cvars, dvars, ovars>>
    /\ pc = "reranking"
    /\ IF outcome = "ok"
       THEN /\ result' = RerankSuccess(all_docs, results, top_k)
            /\ pc' = "done"
            /\ trace' = Append(trace, "rerank_done")
            /\ UNCHANGED error
       ELSE /\ pc' = "fusing"
            /\ trace' = Append(trace, "rerank_failed")
            /\ UNCHANGED <<result, error>>
    /\ UNCHANGED <<vector_weight, keyword_weight, query, top_k, min_score,
                   vector_results, keyword_results, all_docs>>

(* the rerank service answers (status 200 or not) or the call raises;      *)
(* reranker.py 76-106, then hybrid_retriever.py 152-154                    *)
RerankOutcome(outcome, results) ==
    /\ UNCHANGED <<cvars, dvars, ovars>>
    /\ pc = "reranking"
    /\ IF outcome = "ok"
       THEN /\ result' = RerankSuccess(all_docs, results, top_k)
            /\ pc' = "done"
            /\ trace' = Append(trace, "rerank_done")
            /\ UNCHANGED error
       ELSE /\ Fail(RuntimeError(<<"retrieve error", <<"rerank error", outcome>> >>))
            /\ trace' = Append(trace, "rerank_failed")
            /\ UNCHANGED result
    /\ UNCHANGED <<vector_weight, keyword_weight, query, top_k, min_score,
                   vector_results, keyword_results, all_docs>>

(* the caller has the list or the exception; the retriever is free again *)
Finish ==
    /\ UNCHANGED <<cvars, ovars>>
    /\ rerank_response' = <<>>
    /\ pc \in {"done", "failed"}
    /\ pc' = "idle"
    /\ query' = <<>>
    /\ top_k' = 0
    /\ min_score' = 0
    /\ vector_results' = <<>>
    /\ keyword_results' = <<>>
    /\ all_docs' = <<>>
    /\ result' = <<>>
    /\ error' = NoError
    /\ trace' = <<>>
    /\ UNCHANGED <<vector_weight, keyword_weight>>

----------------------------------------------------------------------------
(* Direct calls of HybridRetriever.rerank(query, documents, top_k), which  *)
(* checks its arguments and delegates to DashScopeReranker.rerank, which   *)
(* repeats the same checks.  The request slots query, all_docs (the        *)
(* documents argument), top_k, result, error and trace are reused.         *)

(* a candidate as fusion builds it: A found by the vector search, B by     *)
(* both, C by the keyword search; blank: its content is empty              *)
Candidate(id, blank) ==
    [id |-> id,
     content |-> IF blank THEN "" ELSE Content(id),
     title |-> Title(id),
     score |-> CASE id = "A" -> 63 [] id = "B" -> 275 [] OTHER -> 180,
     vector_score |-> CASE id = "A" -> 9 [] id = "B" -> 5 [] OTHER -> None,
     keyword_score |-> CASE id = "A" -> None [] id = "B" -> 80 [] OTHER -> 60,
     rerank_score |-> None]

(* document lists a caller passes: distinct ids, any order, any length *)
CandidateLists ==
    UNION { { c \in [1..n -> {Candidate(id, b) : id \in DocIds, b \in BOOLEAN}] :
                \A i, j \in 1..n : i # j => c[i].id # c[j].id }
            : n \in 0 .. Cardinality(DocIds) }

(* hybrid_retriever.py 171-178, then reranker.py 44-74: up to the call of  *)
(* the rerank service                                                      *)
Rerank(q, documents, k) ==
    /\ UNCHANGED <<cvars, dvars, ovars>>
    /\ pc = "idle"
    /\ query' = q
    /\ all_docs' = documents
    /\ top_k' = k
    /\ IF strip(q) = <<>>
       THEN /\ Fail(ValueError("query empty"))
            /\ trace' = <<"rerank_call">>
            /\ UNCHANGED result
       ELSE IF documents = <<>>
       THEN /\ result' = <<>>
            /\ pc' = "done"
            /\ trace' = <<"rerank_call">>
            /\ UNCHANGED error
       ELSE IF k < 1
       THEN /\ Fail(ValueError("top_k must be positive"))
            /\ trace' = <<"rerank_call">>
            /\ UNCHANGED result
       ELSE IF Pairs(q, documents) = <<>>
       THEN /\ result' = Take(documents, k)
            /\ pc' = "done"
            /\ trace' = <<"rerank_call">>
            /\ UNCHANGED error
       ELSE /\ pc' = "rr_reranking"
            /\ trace' = <<"rerank_call", "rerank">>
            /\ UNCHANGED <<result, error>>
    /\ UNCHANGED <<vector_weight, keyword_weight, min_score,
                   vector_results, keyword_results>>

(* reranker.py 76-106 for a direct call: the service answers or the call   *)
(* raises                                                                  *)
DirectRerankOutcome(outcome, results) ==
    /\ UNCHANGED <<cvars, ovars>>
    /\ pc = "rr_reranking"
    /\ IF outcome = "ok"
       THEN /\ result' = RerankSuccess(all_docs, results, top_k)
            /\ rerank_response' = results
            /\ pc' = "done"
            /\ trace' = Append(trace, "rerank_done")
            /\ UNCHANGED error
       ELSE /\ Fail(RuntimeError(<<"rerank error", outcome>>))
            /\ trace' = Append(trace, "rerank_failed")
            /\ UNCHANGED <<result, rerank_response>>
    /\ UNCHANGED <<vector_weight, keyword_weight, query, top_k, min_score,
                   vector_results, keyword_results, all_docs>>

DirectRerankReturn ==
    /\ pc = "rr_reranking"
    /\ \E o \in RerankOutcomes :
         \E rs \in (IF o = "ok" THEN RerankResults(Pairs(query, all_docs), top_k) ELSE {<<>>}) :
            DirectRerankOutcome(o, rs)

----------------------------------------------------------------------------
(* The conversational layer: AliyunLLM, CustomRetriever, ConversationChain *)
(* and the chat router.                                                    *)

MaxHistory == 8

SessionIds == {"s1"}            \* ids a client sends
Uuids      == {"u1"}            \* ids uuid.uuid4() hands out (never twice)
KbTypes    == {"legal", "business"}
Questions  == {"q1"}

(* texts *)
AnswerText        == "answer text"                 \* response.output.text
LLMRejectedText   == "sorry: request error"        \* aliyun_llm.py line 38
LLMExceptionText  == "sorry: system error"         \* aliyun_llm.py line 41
ChainApologyText  == "sorry: processing error"     \* conversation_chain.py line 192
Apologies == {LLMRejectedText, LLMExceptionText, ChainApologyText}

(* messages an internal exception carries (str(e)) *)
CtorError      == "chain construction failed"
MalformedError == "generation text is not a string"
InternalErrors == {CtorError, MalformedError}

(* What the completion service does with one Generation.call:             *)
(*   ok         status 200 with a text                                    *)
(*   rejected   a status other than 200                                   *)
(*   exception  the call raises                                           *)
(*   malformed  status 200 whose output.text is not a string: _call       *)
(*              returns it and the chain raises on it                     *)
LLMOutcomes == {"ok", "rejected", "exception", "malformed"}
LLMFailures == {"rejected", "exception"}

(* AliyunLLM._call: the text it returns (for the outcomes it returns on) *)
LLMCall(outcome) ==
    CASE outcome = "ok"        -> AnswerText
      [] outcome = "rejected"  -> LLMRejectedText
      [] outcome = "exception" -> LLMExceptionText
      [] OTHER                 -> "<not a string>"

(* What retrieval meets: the embedding call answers 200, answers another  *)
(* status or raises; the search returns hits or fails (search_similar     *)
(* returns [] then).                                                       *)
RetrievalOutcomes == {"ok", "embedding_rejected", "embedding_exception", "search_failed"}
RetrievalFailures == RetrievalOutcomes \ {"ok"}

IndexOf(kb_type) == <<"knowledge", kb_type>>

(* settings.TOP_K_RESULTS *)
TopKResults == 3

(* ESClient.index_name: the one index the client was constructed with *)
ESIndexName == <<"settings.ELASTICSEARCH_INDEX_NAME">>

(* response.output['embeddings'][0] for the question *)
Embedding(question) == <<"embedding", question>>

NoRequest == [index |-> <<>>, query_vector |-> <<>>, role |-> <<>>, size |-> 0]

(* ESClient.search_similar(query_vector, role, top_k): the request it      *)
(* sends with self.client.search; a role that is truthy becomes a term     *)
(* filter                                                                  *)
SearchSimilar(query_vector, role, size) ==
    [index |-> ESIndexName, query_vector |-> query_vector,
     role |-> role, size |-> size]

(* the call CustomRetriever makes once the embedding call answered 200:    *)
(* es_client.search_similar(self.index_name, query_vector,                 *)
(* settings.TOP_K_RESULTS), arguments by position                          *)
RetrieverSearch(kb_type, question) ==
    SearchSimilar(IndexOf(kb_type), Embedding(question), TopKResults)

(* the search request of a turn, if the turn got as far as the search *)
TurnRequest(kb_type, question, retrieval) ==
    IF retrieval \in {"ok", "search_failed"}
    THEN RetrieverSearch(kb_type, question)
    ELSE NoRequest

(* CustomRetriever.aget_relevant_documents: the documents (their metadata) *)
GetRelevantDocuments(kb_type, outcome) ==
    IF outcome = "ok"
    THEN << [source |-> IndexOf(kb_type)] >>
    ELSE <<>>

HumanMessage(c) == [type |-> "human", content |-> c]
AIMessage(c)    == [type |-> "ai",    content |-> c]

(* ConversationBufferMemory.save_context on the shared ChatMessageHistory *)
SaveContext(history, question, answer) ==
    history \o <<HumanMessage(question), AIMessage(answer)>>

(* self.chain.ainvoke({"question": query}) with memory=self.memory:       *)
(* condense the question when there is history, retrieve, answer, then    *)
(* save the turn to memory.  An LLM result that is not a string raises.   *)
ChainInvoke(kb_type, history, question, condense, retrieval, llm) ==
    IF (history # <<>> /\ condense = "malformed") \/ llm = "malformed"
    THEN [raised |-> TRUE, answer |-> "", source_documents |-> <<>>,
          history |-> history]
    ELSE LET answer == LLMCall(llm)
             docs   == GetRelevantDocuments(kb_type, retrieval)
         IN [raised |-> FALSE, answer |-> answer, source_documents |-> docs,
             history |-> SaveContext(history, question, answer)]

(* lines 178-179 *)
AddMessages(history, question, answer) ==
    history \o <<HumanMessage(question), AIMessage(answer)>>

(* ConversationChain.get_response: the dict it returns and the history    *)
(* it leaves                                                               *)
GetResponse(chain, question, condense, retrieval, llm) ==
    LET r == ChainInvoke(chain.kb_type, chain.chat_history, question,
                         condense, retrieval, llm)
    IN IF r.raised
       THEN [answer |-> ChainApologyText, sources |-> <<>>,
             history |-> r.history]
       ELSE [answer |-> r.answer, sources |-> r.source_documents,
             history |-> AddMessages(r.history, question, r.answer)]

(* ConversationChain.__init__ *)
NewChain(kb_type) == [kb_type |-> kb_type, chat_history |-> <<>>]

(* a clear that forgets only the last exchange *)
ClearMemory_dropLastExchange(chain) ==
    [chain EXCEPT !.chat_history =
        IF Len(@) >= 2 THEN SubSeq(@, 1, Len(@) - 2) ELSE <<>>]

(* ConversationChain.clear_memory *)
ClearMemory(chain) == [chain EXCEPT !.chat_history = <<>>]

ChatResponse(answer, sources, sid) ==
    [kind |-> "ChatResponse", answer |-> answer, sources |-> sources,
     session_id |-> sid, detail |-> ""]
HTTPException(detail) ==
    [kind |-> "HTTPException", answer |-> "", sources |-> <<>>,
     session_id |-> "", detail |-> detail]
Message(m) ==
    [kind |-> "message", answer |-> m, sources |-> <<>>,
     session_id |-> "", detail |-> ""]

NoTurn == [op |-> "none", session_id |-> "", created |-> FALSE,
           condense |-> "none", retrieval |-> "none", llm |-> "none",
           before |-> 0]

CInit ==
    /\ conversation_chains = <<>>
    /\ last_turn = NoTurn
    /\ response = Message("")
    /\ es_request = NoRequest
    /\ pending = {}

Sessions == DOMAIN conversation_chains

Put(chains, sid, chain) ==
    [s \in (DOMAIN chains) \cup {sid} |-> IF s = sid THEN chain ELSE chains[s]]

(* one turn on a chain that exists: lines 37-66 *)
Turn(session_id, chain, is_new, question, condense, retrieval, llm) ==
    LET r == GetResponse(chain, question, condense, retrieval, llm)
    IN /\ UNCHANGED <<rvars, dvars, ovars>>
       /\ conversation_chains' =
             Put(conversation_chains, session_id,
                 [chain EXCEPT !.chat_history = r.history])
       /\ response' = ChatResponse(r.answer, r.sources, session_id)
       /\ es_request' = TurnRequest(chain.kb_type, question, retrieval)
       /\ last_turn' = [op |-> "chat", session_id |-> session_id,
                        created |-> is_new, condense |-> condense,
                        retrieval |-> retrieval, llm |-> llm,
                        before |-> Len(chain.chat_history)]

(* ConversationChain(kb_type=...) raises inside /chat: lines 68-83 *)
ChatCtorRaises(session_id) ==
    /\ UNCHANGED <<rvars, dvars, ovars>>
    /\ response' = HTTPException(CtorError)
    /\ es_request' = NoRequest
    /\ UNCHANGED pending
    /\ last_turn' = [op |-> "chat", session_id |-> session_id,
                     created |-> FALSE, condense |-> "none",
                     retrieval |-> "none", llm |-> "none", before |-> 0]
    /\ UNCHANGED conversation_chains

(* POST /chat; req_sid = "" stands for a request without session_id *)
Chat(req_sid, kb_type, question) ==
    \E session_id \in (IF req_sid = "" THEN Uuids \ Sessions ELSE {req_sid}) :
      IF session_id \notin Sessions
      THEN \/ ChatCtorRaises(session_id)
           \/ \E retrieval \in RetrievalOutcomes, llm \in LLMOutcomes :
                /\ Turn(session_id, NewChain(kb_type), TRUE, question,
                        "none", retrieval, llm)
                /\ UNCHANGED pending
      ELSE LET chain == conversation_chains[session_id]
           IN /\ Len(chain.chat_history) + 4 <= MaxHistory
              /\ \E condense \in (IF chain.chat_history = <<>>
                                  THEN {"none"} ELSE LLMOutcomes),
                    retrieval \in RetrievalOutcomes, llm \in LLMOutcomes :
                   /\ Turn(session_id, chain, FALSE, question,
                           condense, retrieval, llm)
                   /\ UNCHANGED pending

(* a /clear_context that registers a chain for an id it does not know *)
ClearContext_createsSession(session_id) ==
    /\ UNCHANGED <<rvars, dvars, ovars, pending>>
    /\ es_request' = NoRequest
    /\ conversation_chains' =
          Put(conversation_chains, session_id,
              IF session_id \in Sessions
              THEN ClearMemory(conversation_chains[session_id])
              ELSE NewChain("legal"))
    /\ response' = Message("context cleared")
    /\ last_turn' = [op |-> "clear", session_id |-> session_id,
                     created |-> FALSE, condense |-> "none",
                     retrieval |-> "none", llm |-> "none",
                     before |-> IF session_id \in Sessions
                                THEN Len(conversation_chains[session_id].chat_history)
                                ELSE 0]

(* POST /clear_context *)
ClearContext(session_id) ==
    /\ UNCHANGED <<rvars, dvars, ovars, pending>>
    /\ es_request' = NoRequest
    /\ IF session_id \in Sessions
       THEN /\ conversation_chains' =
                  [conversation_chains EXCEPT ![session_id] = ClearMemory(@)]
            /\ response' = Message("context cleared")
       ELSE /\ UNCHANGED conversation_chains
            /\ response' = Message("no such session")
    /\ last_turn' = [op |-> "clear", session_id |-> session_id,
                     created |-> FALSE, condense |-> "none",
                     retrieval |-> "none", llm |-> "none",
                     before |-> IF session_id \in Sessions
                                THEN Len(conversation_chains[session_id].chat_history)
                                ELSE 0]

(* /chat calls that overlap: a call runs without interruption up to         *)
(* `await chain.get_response(...)` (chat.py 28-43), is suspended there     *)
(* while other calls run, and runs to its end once the chain has answered. *)
MaxPending == 2

PendingOn(session_id) == { p \in pending : p.session_id = session_id }

(* chat.py 28-43: resolve the session id, create the chain if the id is    *)
(* new, call get_response and suspend                                      *)
ChatBegin(req_sid, kb_type, question) ==
    /\ Cardinality(pending) < MaxPending
    /\ \E session_id \in (IF req_sid = "" THEN Uuids \ Sessions ELSE {req_sid}) :
         LET is_new == session_id \notin Sessions
             before == IF is_new THEN 0
                       ELSE Len(conversation_chains[session_id].chat_history)
         IN /\ before + 4 * (Cardinality(PendingOn(session_id)) + 1) <= MaxHistory
            /\ \/ is_new /\ ChatCtorRaises(session_id)
               \/ /\ UNCHANGED <<rvars, dvars, ovars, response>>
                  /\ conversation_chains' =
                        IF is_new
                        THEN Put(conversation_chains, session_id, NewChain(kb_type))
                        ELSE conversation_chains
                  /\ \E req \in 1..MaxPending :
                        /\ \A p \in pending : p.req # req
                        /\ \A r \in 1..(req-1) : \E p \in pending : p.req = r
                        /\ pending' = pending \cup
                              {[req |-> req, session_id |-> session_id,
                                question |-> question, created |-> is_new]}
                  /\ es_request' = NoRequest
                  /\ last_turn' = [op |-> "chat_begin", session_id |-> session_id,
                                   created |-> is_new, condense |-> "none",
                                   retrieval |-> "none", llm |-> "none",
                                   before |-> before]

(* a suspended call whose turn writes its exchange into every chain *)
ChatEnd_sharedHistory(p) ==
    /\ p \in pending
    /\ pending' = pending \ {p}
    /\ UNCHANGED <<rvars, dvars, ovars>>
    /\ LET chain == conversation_chains[p.session_id]
       IN \E condense \in (IF chain.chat_history = <<>> THEN {"none"} ELSE LLMOutcomes),
             retrieval \in RetrievalOutcomes, llm \in LLMOutcomes :
            LET r == GetResponse(chain, p.question, condense, retrieval, llm)
            IN /\ conversation_chains' =
                     [s \in Sessions |->
                        [conversation_chains[s] EXCEPT !.chat_history = r.history]]
               /\ response' = ChatResponse(r.answer, r.sources, p.session_id)
               /\ es_request' = TurnRequest(chain.kb_type, p.question, retrieval)
               /\ last_turn' = [op |-> "chat", session_id |-> p.session_id,
                                created |-> p.created, condense |-> condense,
                                retrieval |-> retrieval, llm |-> llm,
                                before |-> Len(chain.chat_history)]

(* chat.py 43-66 and conversation_chain.py 161-188: the chain of a         *)
(* suspended call answers; the turn is written to the history of the       *)
(* chain the call holds                                                    *)
ChatEnd(p) ==
    /\ p \in pending
    /\ pending' = pending \ {p}
    /\ LET chain == conversation_chains[p.session_id]
       IN \E condense \in (IF chain.chat_history = <<>> THEN {"none"} ELSE LLMOutcomes),
             retrieval \in RetrievalOutcomes, llm \in LLMOutcomes :
            Turn(p.session_id, chain, p.created, p.question, condense, retrieval, llm)

----------------------------------------------------------------------------
(* The recommendations router: get_recommended_questions and the           *)
(* process-wide set of ids already shown.                                  *)

MaxCount == 2

(* data["questions"] of recommended_questions.json: ids are distinct *)
QuestionFile ==
    << [id |-> "r1", kb_type |-> "business"],
       [id |-> "r2", kb_type |-> "business"],
       [id |-> "r3", kb_type |-> "legal"] >>

(* values of the kb_type query parameter; no question is of type customer *)
KbFilters == {"all", "business", "legal", "customer"}

(* values of the count query parameter *)
Counts == -1 .. MaxCount

QuestionIds(questions) == { questions[i].id : i \in 1..Len(questions) }

(* lines 97-98 *)
FilterByKbType(questions, kb_type) ==
    IF kb_type = "all" THEN questions
    ELSE LET OfType(q) == q.kb_type = kb_type
         IN SelectSeq(questions, OfType)

(* line 107 *)
NotShown(questions, shown) ==
    LET Unseen(q) == q.id \notin shown
    IN SelectSeq(questions, Unseen)

(* a reset that forgets only the questions of the requested kb type *)
ShownAfterReset_matchingOnly(shown, all_questions) == shown \ QuestionIds(all_questions)

(* shown_question_ids.clear() *)
ShownAfterReset(shown, all_questions) == {}

(* random.sample(population, k) for 0 <= k <= len(population): k elements *)
(* at k distinct positions, in any order                                   *)
Sample(population, k) ==
    { [i \in 1..k |-> population[pos[i]]] :
        pos \in { f \in [1..k -> 1..Len(population)] :
                    \A i, j \in 1..k : i # j => f[i] # f[j] } }

NoCall == [count |-> 0, exclude_shown |-> FALSE, kb_type |-> "", shown_before |-> {},
           outcome |-> "none"]

QInit ==
    /\ shown_question_ids = {}
    /\ recommendations = <<>>
    /\ rec_call = NoCall

(* GET /recommended-questions *)
GetRecommendedQuestions(count, exclude_shown, kb_type) ==
    LET all_questions == FilterByKbType(QuestionFile, kb_type)
        filtering == exclude_shown /\ shown_question_ids # {}
        unshown   == NotShown(all_questions, shown_question_ids)
        reset     == filtering /\ unshown = <<>>
        available_questions ==
            IF filtering /\ ~reset THEN unshown ELSE all_questions
        shown     == IF reset
                     THEN ShownAfterReset(shown_question_ids, all_questions)
                     ELSE shown_question_ids
        k         == Min(count, Len(available_questions))
        Call(outcome) == [count |-> count, exclude_shown |-> exclude_shown,
                          kb_type |-> kb_type, shown_before |-> shown_question_ids,
                          outcome |-> outcome]
    IN /\ UNCHANGED <<rvars, cvars, dvars, mvars>>
       /\ IF all_questions = <<>>
          THEN /\ recommendations' = <<>>
               /\ rec_call' = Call("ok")
               /\ UNCHANGED shown_question_ids
          ELSE IF k < 0
          THEN \* random.sample raises ValueError for a negative k
               /\ recommendations' = <<>>
               /\ rec_call' = Call("ValueError")
               /\ shown_question_ids' = shown
          ELSE \E selected_questions \in Sample(available_questions, k) :
               /\ recommendations' = [i \in 1..k |-> selected_questions[i].id]
               /\ rec_call' = Call("ok")
               /\ shown_question_ids' = shown \cup QuestionIds(selected_questions)

----------------------------------------------------------------------------
(* ResourceManager: the pool of Elasticsearch clients.                     *)

MaxConnections == 2     \* largest max_connections a manager is built with
MaxClients     == 3     \* clients created in one run
MaxSessions    == 2     \* es_session blocks open at once
MaxClock       == 360   \* seconds the clock runs

DefaultMaxConnections == 5
ConnectionTimeout     == 30     \* connection_timeout
CleanupInterval       == 300    \* self._cleanup_interval

(* time that passes between two calls *)
Delays == {20, 300}

(* _get_client_key: host and port are fixed, so it is the only key *)
ClientKey == "localhost:9200"

NoClient == 0
NoOp == [op |-> "none", outcome |-> "none", client |-> NoClient, cleaned |-> FALSE]

PoolInit0 ==
    /\ es_clients = <<>>
    /\ last_cleanup = 0
    /\ now = 0
    /\ next_client = 1
    /\ closed = {}
    /\ open_sessions = {}
    /\ rm_last = NoOp
    /\ last_returned = NoClient

MInit == max_connections = DefaultMaxConnections /\ PoolInit0

Expired(client_info) == (now - client_info.last_used) > ConnectionTimeout

Touched(pool) == [pool EXCEPT ![ClientKey].last_used = now]

(* a cleanup that closes an expired client and leaves it in the pool *)
CleanupOldConnections_keepsEntry(close_ok) ==
    IF (now - last_cleanup) < CleanupInterval
    THEN [pool |-> es_clients, last_cleanup |-> last_cleanup,
          closed |-> closed, cleaned |-> FALSE]
    ELSE IF ClientKey \in DOMAIN es_clients /\ Expired(es_clients[ClientKey])
    THEN IF close_ok
         THEN [pool |-> es_clients, last_cleanup |-> now,
               closed |-> closed \cup {es_clients[ClientKey].client},
               cleaned |-> TRUE]
         ELSE [pool |-> es_clients, last_cleanup |-> last_cleanup,
               closed |-> closed, cleaned |-> FALSE]
    ELSE [pool |-> es_clients, last_cleanup |-> now,
          closed |-> closed, cleaned |-> FALSE]

(* _cleanup_old_connections: what it leaves.  The pool has at most the     *)
(* entry of ClientKey, so the loop has at most one round.  close_ok: the   *)
(* client's close() returns; otherwise it raises, the except clause logs,  *)
(* and neither the del nor the update of _last_cleanup is reached.         *)
CleanupOldConnections(close_ok) ==
    IF (now - last_cleanup) < CleanupInterval
    THEN [pool |-> es_clients, last_cleanup |-> last_cleanup,
          closed |-> closed, cleaned |-> FALSE]
    ELSE IF ClientKey \in DOMAIN es_clients /\ Expired(es_clients[ClientKey])
    THEN IF close_ok
         THEN [pool |-> <<>>, last_cleanup |-> now,
               closed |-> closed \cup {es_clients[ClientKey].client},
               cleaned |-> TRUE]
         ELSE [pool |-> es_clients, last_cleanup |-> last_cleanup,
               closed |-> closed, cleaned |-> FALSE]
    ELSE [pool |-> es_clients, last_cleanup |-> now,
          closed |-> closed, cleaned |-> FALSE]

(* get_es_client, called directly (session = FALSE) or on entering an      *)
(* es_session block (session = TRUE)                                       *)
Get(session, close_ok) ==
    LET c  == CleanupOldConnections(close_ok)
        op == IF session THEN "session_enter" ELSE "get"
        Returns(client) ==
            /\ rm_last' = [op |-> op, outcome |-> "ok", client |-> client,
                           cleaned |-> c.cleaned]
            /\ last_returned' = client
            /\ open_sessions' =
                  IF session
                  THEN open_sessions \cup
                         {[slot |-> CHOOSE n \in 1..MaxSessions :
                                      \A o \in open_sessions : o.slot # n,
                           client |-> client]}
                  ELSE open_sessions
    IN /\ UNCHANGED <<rvars, cvars, dvars, qvars, max_connections, now>>
       /\ session => Cardinality(open_sessions) < MaxSessions
       /\ last_cleanup' = c.last_cleanup
       /\ closed' = c.closed
       /\ IF ClientKey \in DOMAIN c.pool
          THEN /\ es_clients' = Touched(c.pool)
               /\ Returns(c.pool[ClientKey].client)
               /\ UNCHANGED next_client
          ELSE IF Cardinality(DOMAIN c.pool) >= max_connections
          THEN \* the pool is empty here: min() of no keys raises ValueError
               /\ es_clients' = c.pool
               /\ rm_last' = [op |-> op, outcome |-> "ValueError",
                              client |-> NoClient, cleaned |-> c.cleaned]
               /\ last_returned' = IF c.cleaned THEN NoClient ELSE last_returned
               /\ UNCHANGED <<next_client, open_sessions>>
          ELSE /\ next_client <= MaxClients
               /\ es_clients' = [k \in {ClientKey} |->
                                   [client |-> next_client, last_used |-> now]]
               /\ next_client' = next_client + 1
               /\ Returns(next_client)

GetEsClient == \E close_ok \in BOOLEAN : Get(FALSE, close_ok)

EsSessionEnter == \E close_ok \in BOOLEAN : Get(TRUE, close_ok)

(* the finally clause of es_session *)
EsSessionExit(s) ==
    /\ UNCHANGED <<rvars, cvars, dvars, qvars, max_connections, now,
                   last_cleanup, next_client, closed, last_returned>>
    /\ s \in open_sessions
    /\ open_sessions' = open_sessions \ {s}
    /\ es_clients' = IF ClientKey \in DOMAIN es_clients
                     THEN Touched(es_clients) ELSE es_clients
    /\ rm_last' = [op |-> "session_exit", outcome |-> "ok",
                   client |-> s.client, cleaned |-> FALSE]

(* close_all_clients: a close() that raises is logged; the pool is emptied *)
CloseAllClients(close_ok) ==
    /\ UNCHANGED <<rvars, cvars, dvars, qvars, max_connections, now,
                   last_cleanup, next_client, open_sessions>>
    /\ closed' = IF ClientKey \in DOMAIN es_clients /\ close_ok
                 THEN closed \cup {es_clients[ClientKey].client}
                 ELSE closed
    /\ es_clients' = <<>>
    /\ last_returned' = NoClient
    /\ rm_last' = [op |-> "close_all", outcome |-> "ok", client |-> NoClient,
                   cleaned |-> FALSE]

(* _cleanup_old_connections called on its own *)
Cleanup(close_ok) ==
    LET c == CleanupOldConnections(close_ok)
    IN /\ UNCHANGED <<rvars, cvars, dvars, qvars, max_connections, now,
                      next_client, open_sessions>>
       /\ es_clients' = c.pool
       /\ last_cleanup' = c.last_cleanup
       /\ closed' = c.closed
       /\ last_returned' = IF c.cleaned THEN NoClient ELSE last_returned
       /\ rm_last' = [op |-> "cleanup", outcome |-> "ok", client |-> NoClient,
                      cleaned |-> c.cleaned]

(* time passes *)
Tick(dt) ==
    /\ UNCHANGED <<rvars, cvars, dvars, qvars, max_connections, es_clients,
                   last_cleanup, next_client, closed, open_sessions, rm_last,
                   last_returned>>
    /\ now + dt <= MaxClock
    /\ now' = now + dt

Init == RInit /\ CInit /\ QInit /\ MInit /\ rerank_response = <<>>

(* the vector search of the request in flight completes *)
VectorSearchReturn ==
    /\ pc = "vsearch"
    /\ \E o \in SearchOutcomes :
         \E hits \in (IF o = "ok" THEN HitLists(VectorScores, top_k * 2) ELSE {<<>>}) :
            VectorSearchOutcome(o, hits)

(* the keyword search of the request in flight completes *)
KeywordSearchReturn ==
    /\ pc = "ksearch"
    /\ \E o \in SearchOutcomes :
         \E hits \in (IF o = "ok" THEN HitLists(KeywordScores, top_k) ELSE {<<>>}) :
            KeywordSearchOutcome(o, hits)

(* the rerank call of the request in flight completes *)
RerankReturn ==
    /\ pc = "reranking"
    /\ \E o \in RerankOutcomes :
         \E rs \in (IF o = "ok" THEN RerankResults(Pairs(query, all_docs), top_k) ELSE {<<>>}) :
            RerankOutcome(o, rs)

Next ==
    \/ \E q \in Queries, k \in TopKs, ms \in MinScores : Retrieve(q, k, ms)
    \/ Validate
    \/ \E ok \in BOOLEAN : EmbedReturn(ok)
    \/ VectorSearchReturn
    \/ KeywordSearchReturn
    \/ Fuse
    \/ RerankReturn
    \/ Finish

Spec == Init /\ [][Next]_vars

(* Every step of a request is taken once it can be: the synchronous steps  *)
(* run to the next await, and each awaited external call returns or        *)
(* raises.                                                                 *)
Fairness ==
    /\ WF_vars(Validate)
    /\ WF_vars(\E ok \in BOOLEAN : EmbedReturn(ok))
    /\ WF_vars(VectorSearchReturn)
    /\ WF_vars(KeywordSearchReturn)
    /\ WF_vars(Fuse)
    /\ WF_vars(RerankReturn)

(* Termination is checked on requests with the default weights, the       *)
(* default min_score and top_k up to LiveMaxTopK.                          *)
LiveMaxTopK == 1

LiveInit == Init /\ vector_weight = 7 /\ keyword_weight = 3

LiveNext ==
    \/ \E q \in Queries, k \in 0 .. LiveMaxTopK : Retrieve(q, k, 0)
    \/ Validate
    \/ \E ok \in BOOLEAN : EmbedReturn(ok)
    \/ VectorSearchReturn
    \/ KeywordSearchReturn
    \/ Fuse
    \/ RerankReturn
    \/ Finish

LiveSpec == LiveInit /\ [][LiveNext]_vars /\ Fairness

(* Fusion on its own: the request has its two hit lists (line 99) and the  *)
(* merge runs on them.  Raw scores and weights include 0.                  *)
FusionVectorScores  == {0, 5, 9}
FusionKeywordScores == {0, 60, 80}
FusionWeights       == {0, 3, 7, 10}

FusionInit ==
    /\ CInit
    /\ QInit
    /\ MInit
    /\ rerank_response = <<>>
    /\ vector_weight \in FusionWeights
    /\ keyword_weight \in FusionWeights
    /\ pc = "fusing"
    /\ query = <<" ", "q">>
    /\ top_k \in 1 .. MaxTopK
    /\ min_score = 0
    /\ vector_results \in HitLists(FusionVectorScores, top_k * 2)
    /\ keyword_results \in HitLists(FusionKeywordScores, top_k)
    /\ all_docs = <<>>
    /\ result = <<>>
    /\ error = NoError
    /\ trace = <<"embed", "vsearch", "vsearch_done", "ksearch", "ksearch_done">>

FusionNext ==
    \/ Fuse
    \/ Finish

FusionSpec == FusionInit /\ [][FusionNext]_vars

RerankNext ==
    \/ \E q \in Queries, docs \in CandidateLists, k \in TopKs : Rerank(q, docs, k)
    \/ DirectRerankReturn
    \/ Finish

RerankSpec == Init /\ [][RerankNext]_vars

ChatNext ==
    \/ \E sid \in SessionIds \cup {""}, kb \in KbTypes, q \in Questions :
            Chat(sid, kb, q)
    \/ \E sid \in SessionIds \cup Uuids : ClearContext(sid)

ChatSpec == Init /\ [][ChatNext]_vars

ConcNext ==
    \/ \E sid \in SessionIds \cup {""}, kb \in KbTypes, q \in Questions :
            ChatBegin(sid, kb, q)
    \/ \E p \in pending : ChatEnd(p)
    \/ \E sid \in SessionIds \cup Uuids : ClearContext(sid)

ConcSpec == Init /\ [][ConcNext]_vars

RecNext ==
    \E count \in Counts, exclude_shown \in BOOLEAN, kb_type \in KbFilters :
        GetRecommendedQuestions(count, exclude_shown, kb_type)

RecSpec == Init /\ [][RecNext]_vars

(* a manager built with any max_connections up to MaxConnections *)
PoolInit ==
    /\ RInit /\ vector_weight = 7
    /\ CInit /\ QInit /\ rerank_response = <<>>
    /\ max_connections \in 0 .. MaxConnections
    /\ PoolInit0

PoolNext ==
    \/ GetEsClient
    \/ EsSessionEnter
    \/ \E s \in open_sessions : EsSessionExit(s)
    \/ \E close_ok \in BOOLEAN : CloseAllClients(close_ok)
    \/ \E close_ok \in BOOLEAN : Cleanup(close_ok)
    \/ \E dt \in Delays : Tick(dt)

PoolSpec == PoolInit /\ [][PoolNext]_vars

----------------------------------------------------------------------------
(* Properties of HybridRetriever.retrieve (checked under Spec)             *)

IsBlank(q) == \A i \in 1..Len(q) : IsSpace(q[i])

InHits(hits, id) == \E i \in 1..Len(hits) : hits[i]._id = id
RawScore(hits, id) == hits[CHOOSE i \in 1..Len(hits) : hits[i]._id = id]._score

Fused == pc \in {"reranking", "done"}

(* C1: a query that is blank after trimming, or a top_k below 1, is        *)
(* rejected with ValueError, and no call to the embedding model, the       *)
(* search engine or the reranker is issued for that request.               *)
C1_InvalidArgumentBeforeAnyCall ==
    (pc \notin {"idle", "validating"} /\ (IsBlank(query) \/ top_k < 1))
        => /\ pc = "failed"
           /\ error.type = "ValueError"
           /\ trace = <<>>

(* C1 witness: a whitespace-only query has been rejected *)
C1_Witness ==
    /\ pc = "failed"
    /\ error.type = "ValueError"
    /\ query # <<>>
    /\ IsBlank(query)

(* C2: every document id present in both the vector hits and the keyword   *)
(* hits has exactly one fused entry, whose vector_score and keyword_score  *)
(* are the two raw hit scores and whose score is                           *)
(* vector_score * vector_weight + keyword_score * keyword_weight.          *)
C2_FusionAdditive ==
    Fused =>
      \A id \in DocIds :
        (InHits(vector_results, id) /\ InHits(keyword_results, id)) =>
          \E i \in 1..Len(all_docs) :
            /\ all_docs[i].id = id
            /\ all_docs[i].vector_score = RawScore(vector_results, id)
            /\ all_docs[i].keyword_score = RawScore(keyword_results, id)
            /\ all_docs[i].score =
                  RawScore(vector_results, id) * vector_weight
                  + RawScore(keyword_results, id) * keyword_weight

(* C2 witness: a finished retrieval with a document found by both searches *)
C2_Witness ==
    /\ pc = "done"
    /\ \E id \in DocIds : InHits(vector_results, id) /\ InHits(keyword_results, id)

(* stable sort by score descending *)
RECURSIVE InsertDesc(_, _)
InsertDesc(sorted, d) ==
    IF sorted = <<>> THEN <<d>>
    ELSE IF Head(sorted).score >= d.score
         THEN <<Head(sorted)>> \o InsertDesc(Tail(sorted), d)
         ELSE <<d>> \o sorted

RECURSIVE StableSortDesc(_)
StableSortDesc(docs) ==
    IF docs = <<>> THEN <<>>
    ELSE InsertDesc(StableSortDesc(SubSeq(docs, 1, Len(docs) - 1)), docs[Len(docs)])

Ids(docs) == [i \in 1..Len(docs) |-> docs[i].id]

ScenarioVectorHits  == <<Hit("A", 9), Hit("B", 5)>>
ScenarioKeywordHits == <<Hit("B", 80), Hit("C", 60)>>

(* C3: the fused list is ordered by fused score descending, ties in        *)
(* first-seen order; for vector hits [(A,0.9),(B,0.5)], keyword hits       *)
(* [(B,8.0),(C,6.0)] and weights 0.7/0.3 the fused order is B, C, A.       *)
C3_FusedOrderedByScore ==
    Fused =>
      /\ all_docs = StableSortDesc(all_docs)
      /\ (/\ vector_results = ScenarioVectorHits
          /\ keyword_results = ScenarioKeywordHits
          /\ vector_weight = 7 /\ keyword_weight = 3)
            => Ids(all_docs) = <<"B", "C", "A">>

(* C4: when min_score is supplied, every returned document has             *)
(* score >= min_score.                                                     *)
C4_MinScoreFilter ==
    pc = "done" => \A i \in 1..Len(result) : result[i].score >= min_score

(* C5: if the reranker fails, the call does not fail: it returns the       *)
(* fused ranking truncated to top_k.                                       *)
C5_RerankFallback ==
    (\E i \in 1..Len(trace) : trace[i] = "rerank_failed")
        => /\ pc = "done"
           /\ result = Take(all_docs, top_k)

Position(ev) == CHOOSE i \in 1..Len(trace) : trace[i] = ev
Happened(ev) == \E i \in 1..Len(trace) : trace[i] = ev

(* C10: the keyword search is started before the vector search has         *)
(* completed, and fusion starts only after both have completed.            *)
C10_SearchesConcurrent ==
    /\ Happened("vsearch_done") =>
          /\ Happened("ksearch")
          /\ Position("ksearch") < Position("vsearch_done")
    /\ pc \in {"fusing", "reranking", "done"} =>
          Happened("vsearch_done") /\ Happened("ksearch_done")

(* the stages a request may move to from each stage; vsearch and ksearch   *)
(* are the two halves of Searching                                         *)
NextStages(p) ==
    CASE p = "idle"       -> {"validating"}
      [] p = "validating" -> {"embedding", "failed"}
      [] p = "embedding"  -> {"vsearch", "failed"}
      [] p = "vsearch"    -> {"ksearch", "failed"}
      [] p = "ksearch"    -> {"fusing", "failed"}
      [] p = "fusing"     -> {"reranking", "done", "failed"}
      [] p = "reranking"  -> {"done", "failed"}
      [] OTHER            -> {"idle"}

(* C11: a request passes through Validating, Embedding, Searching, Fusing, *)
(* optionally Reranking, then Done, in that order and never back, Failed   *)
(* being reachable on the way; and every request that has started ends in  *)
(* Done or Failed, given that each external call returns or raises.        *)
C11_StagesInOrderAndTerminate ==
    /\ [][pc' # pc => pc' \in NextStages(pc)]_vars
    /\ (pc = "validating") ~> (pc \in {"done", "failed"})

(* C11 witness: a request that went through every stage, rerank included *)
C11_Witness ==
    /\ pc = "done"
    /\ trace = <<"embed", "vsearch", "vsearch_done", "ksearch", "ksearch_done",
                 "rerank_call", "rerank", "rerank_done">>

(* C12: if the embedding call fails, the retrieval fails with an error:    *)
(* no vector search and no keyword search is issued afterwards and no      *)
(* document list is returned.                                              *)
C12_EmbeddingFailureIsFatal ==
    Happened("embed_failed") =>
        /\ pc = "failed"
        /\ error.type = "RuntimeError"
        /\ ~Happened("vsearch") /\ ~Happened("ksearch")
        /\ trace[Len(trace)] = "embed_failed"
        /\ result = <<>>

(* C12 witness: the embedding call of a valid request has raised *)
C12_Witness ==
    /\ trace = <<"embed", "embed_failed">>
    /\ pc = "failed"

(* C13: when either search fails because the index does not exist, the     *)
(* call fails with a RuntimeError that names the missing index, and no     *)
(* document list is returned.                                              *)
C13_IndexNotFoundSurfaces ==
    (Happened("vsearch_notfound") \/ Happened("ksearch_notfound")) =>
        /\ pc = "failed"
        /\ error.type = "RuntimeError"
        /\ error.msg = <<"index missing", IndexName>>
        /\ result = <<>>

(* C13 witness: the keyword search found no index after the vector search  *)
(* had answered                                                            *)
C13_Witness ==
    /\ pc = "failed"
    /\ Happened("vsearch_done")
    /\ Happened("ksearch_notfound")

(* C14: retrieve never returns more than top_k documents, and when no      *)
(* reranking happens the result is exactly the first top_k entries of the  *)
(* fused list.                                                             *)
C14_AtMostTopK ==
    pc = "done" =>
        /\ Len(result) <= top_k
        /\ ~Happened("rerank_call") =>
              /\ Len(result) = Min(top_k, Len(all_docs))
              /\ \A i \in 1..Len(result) : result[i] = all_docs[i]

(* C14 witness: the rerank service answered with more than top_k results   *)
(* and top_k documents were returned                                       *)
C14_Witness ==
    /\ pc = "done"
    /\ Happened("rerank_done")
    /\ Len(result) = top_k

(* C15: self.rerank is called if and only if the fused list is longer than *)
(* top_k; with at most top_k fused candidates the rerank service is never  *)
(* called.                                                                 *)
C15_RerankIffMoreThanTopK ==
    /\ Happened("rerank_call") => Len(all_docs) > top_k
    /\ Happened("rerank") => Happened("rerank_call")
    /\ (Fused /\ Len(all_docs) > top_k) => Happened("rerank_call")

(* C15 witness: exactly top_k fused candidates, returned without rerank *)
C15_Witness ==
    /\ pc = "done"
    /\ top_k >= 1
    /\ Len(all_docs) = top_k
    /\ ~Happened("rerank_call")

(* C16: the candidate list handed to the reranker has at most top_k * 2    *)
(* entries.                                                                *)
C16_RerankInputAtMostTwiceTopK ==
    Happened("rerank_call") => Len(all_docs) <= top_k * 2

(* C18: in every returned document score is the score of the last stage   *)
(* that touched it: rerank_score when present, else                        *)
(* (vector_score or 0) * vector_weight + (keyword_score or 0) *            *)
(* keyword_weight; and the vector_score and keyword_score set by fusion    *)
(* are still the raw hit scores (absent for a search that did not find     *)
(* the document).                                                          *)
C18_ScoreReflectsLastStage ==
    pc = "done" =>
      \A i \in 1..Len(result) :
        LET d == result[i]
        IN /\ d.rerank_score # None => d.score = d.rerank_score
           /\ d.rerank_score = None =>
                 d.score = OrZero(d.vector_score) * vector_weight
                           + OrZero(d.keyword_score) * keyword_weight
           /\ d.vector_score = IF InHits(vector_results, d.id)
                               THEN RawScore(vector_results, d.id) ELSE None
           /\ d.keyword_score = IF InHits(keyword_results, d.id)
                                THEN RawScore(keyword_results, d.id) ELSE None

(* C18 witness: a reranked document that both searches had found *)
C18_Witness ==
    /\ pc = "done"
    /\ \E i \in 1..Len(result) :
          /\ result[i].rerank_score # None
          /\ result[i].vector_score # None
          /\ result[i].keyword_score # None

----------------------------------------------------------------------------
(* Properties of rerank called directly (checked under RerankSpec)         *)

Reranked == pc = "done" /\ Happened("rerank_done")

CandidateIds == { all_docs[j].id : j \in 1..Len(all_docs) }
CandidateOf(id) == all_docs[CHOOSE j \in 1..Len(all_docs) : all_docs[j].id = id]
ServiceScores(id) ==
    { rerank_response[m].score :
        m \in { n \in 1..Len(rerank_response) : rerank_response[n].doc_id = id } }

(* C17: on success rerank changes only score and rerank_score of each       *)
(* returned document, both to the service's score for its id; id, content, *)
(* title, vector_score and keyword_score are those of the candidate.       *)
C17_RerankKeepsProvenance ==
    Reranked =>
      \A i \in 1..Len(result) :
        LET d == result[i]
        IN /\ d.id \in CandidateIds
           /\ d.content = CandidateOf(d.id).content
           /\ d.title = CandidateOf(d.id).title
           /\ d.vector_score = CandidateOf(d.id).vector_score
           /\ d.keyword_score = CandidateOf(d.id).keyword_score
           /\ d.score \in ServiceScores(d.id)
           /\ d.rerank_score = d.score

(* C17 witness: a reranked list with a document of each provenance *)
C17_Witness ==
    /\ Reranked
    /\ \E i, j \in 1..Len(result) :
          /\ result[i].vector_score # None /\ result[i].keyword_score # None
          /\ result[j].vector_score = None

C20_RerankRejectsEmptyArguments ==
    (Happened("rerank_call") /\ pc # "idle" /\ (IsBlank(query) \/ all_docs = <<>>)) =>
        /\ pc = "failed"
        /\ error.type = "ValueError"
        /\ ~Happened("rerank")

(* the ids the service named among its first top_k results that are ids   *)
(* of submitted candidates, in the service's order                         *)
IsCandidateId(id) == id \in CandidateIds
ResolvedIds ==
    SelectSeq([m \in 1..Len(Take(rerank_response, top_k)) |-> rerank_response[m].doc_id],
              IsCandidateId)

(* C21: when the service's response names an id that is not among the      *)
(* submitted candidates, that entry is dropped and the remaining reranked  *)
(* documents are still returned, in the service's order; the call does     *)
(* not fail.                                                               *)
C21_UnknownIdDropped ==
    Happened("rerank_done") =>
        /\ pc = "done"
        /\ error = NoError
        /\ Ids(result) = ResolvedIds

(* C21 witness: the service named an unknown id before a submitted one,    *)
(* both within top_k                                                       *)
C21_Witness ==
    /\ Reranked
    /\ Len(rerank_response) >= 2
    /\ top_k >= 2
    /\ rerank_response[1].doc_id = UnknownId
    /\ rerank_response[2].doc_id \in CandidateIds
    /\ Len(result) = 1

----------------------------------------------------------------------------
(* Properties of the conversational layer (checked under ChatSpec)         *)

TurnHistory == conversation_chains[last_turn.session_id].chat_history

TurnRan == last_turn.op = "chat" /\ last_turn.retrieval # "none"

(* C6: a failure of the completion service (an exception or a non-200      *)
(* status from the model call) leaves the session history unchanged in     *)
(* length.                                                                 *)
C6_FailedTurnKeepsHistory ==
    (TurnRan /\ (last_turn.llm \in LLMFailures \/ last_turn.condense \in LLMFailures))
        => Len(TurnHistory) = last_turn.before

(* C7: a successful turn appends exactly one (user, question) message      *)
(* followed by one (assistant, answer) message: the history grows by 2.    *)
C7_SuccessfulTurnAppendsTwo ==
    (TurnRan /\ last_turn.llm = "ok" /\ last_turn.condense \in {"none", "ok"}
             /\ last_turn.retrieval = "ok")
        => /\ Len(TurnHistory) = last_turn.before + 2
           /\ TurnHistory[Len(TurnHistory) - 1].type = "human"
           /\ TurnHistory[Len(TurnHistory)] = AIMessage(response.answer)

(* C8: any failure of retrieval or of completion yields the apology        *)
(* answer with an empty sources list and never raises to the caller.       *)
C8_FailureYieldsApology ==
    (TurnRan /\ (\/ last_turn.retrieval \in RetrievalFailures
                 \/ last_turn.llm \in LLMFailures \cup {"malformed"}))
        => /\ response.kind = "ChatResponse"
           /\ response.answer \in Apologies
           /\ response.sources = <<>>

(* C9: no response of /chat or /clear_context carries a raw internal or    *)
(* upstream error string.                                                  *)
C9_NoRawErrorToUser ==
    /\ response.detail \notin InternalErrors
    /\ response.answer \notin InternalErrors

(* C22: clear_memory resets the session history to empty and is            *)
(* idempotent: clearing an already-empty history, or clearing twice in a   *)
(* row, leaves the history empty and raises no error.                      *)
C22_ClearIsIdempotent ==
    /\ (last_turn.op = "clear" /\ last_turn.session_id \in Sessions) =>
          /\ conversation_chains[last_turn.session_id].chat_history = <<>>
          /\ response = Message("context cleared")
    /\ \A s \in Sessions :
          LET chain == conversation_chains[s]
          IN /\ ClearMemory(chain).chat_history = <<>>
             /\ ClearMemory(ClearMemory(chain)) = ClearMemory(chain)

(* C22 witness: a session whose history was already empty has been cleared *)
C22_Witness ==
    /\ last_turn.op = "clear"
    /\ last_turn.session_id \in Sessions
    /\ last_turn.before = 0

(* C23: a session is created by a /chat message for an id that has no      *)
(* session, and by nothing else; a later message with the same id runs on  *)
(* the stored chain; no session is ever removed; /clear_context on an      *)
(* unknown id creates no session.                                          *)
C23_SessionsOnlyGrow ==
    [][ /\ Sessions \subseteq Sessions'
        /\ Sessions' # Sessions =>
              /\ last_turn'.op = "chat"
              /\ last_turn'.created
              /\ Sessions' = Sessions \cup {last_turn'.session_id}
        /\ (last_turn'.op = "chat" /\ response'.kind = "ChatResponse") =>
              last_turn'.session_id \in Sessions'
        /\ \A s \in Sessions :
              /\ conversation_chains'[s].kb_type = conversation_chains[s].kb_type
              /\ (last_turn'.op = "chat" /\ last_turn'.session_id = s) =>
                    /\ ~last_turn'.created
                    /\ last_turn'.before = Len(conversation_chains[s].chat_history)
      ]_vars

(* C23 witness: /clear_context for an unknown id while another session is  *)
(* stored with its history                                                 *)
C23_Witness ==
    /\ last_turn.op = "clear"
    /\ last_turn.session_id \notin Sessions
    /\ \E s \in Sessions : conversation_chains[s].chat_history # <<>>

----------------------------------------------------------------------------
(* Properties of fusion (checked under FusionSpec)                         *)

HitIds(hits) == { hits[i]._id : i \in 1..Len(hits) }

(* C26: the fused candidate list holds no document id more than once, for  *)
(* any vector and keyword hit lists, also when an id is in both lists; its *)
(* ids are those of the two lists.                                         *)
C26_FusedDeduplicated ==
    Fused =>
      /\ \A i, j \in 1..Len(all_docs) : i # j => all_docs[i].id # all_docs[j].id
      /\ SeenIds(all_docs) = HitIds(vector_results) \cup HitIds(keyword_results)

(* C26 witness: fusion of lists that share two ids *)
C26_Witness ==
    /\ Fused
    /\ Cardinality(HitIds(vector_results) \cap HitIds(keyword_results)) >= 2

(* C27: fusing an empty vector hit list with a non-empty keyword hit list  *)
(* yields exactly the keyword documents, each with score =                 *)
(* keyword_score * keyword_weight and no vector_score, in descending order *)
(* of that score; fusing two empty lists gives an empty list and no error. *)
C27_EmptyVectorSignal ==
    /\ (Fused /\ vector_results = <<>> /\ keyword_results # <<>>) =>
          /\ Len(all_docs) = Len(keyword_results)
          /\ \A i \in 1..Len(all_docs) :
                /\ all_docs[i].id = keyword_results[i]._id
                /\ all_docs[i].content = keyword_results[i].content
                /\ all_docs[i].title = keyword_results[i].title
                /\ all_docs[i].keyword_score = keyword_results[i]._score
                /\ all_docs[i].score = keyword_results[i]._score * keyword_weight
                /\ all_docs[i].vector_score = None
          /\ \A i \in 1..(Len(all_docs) - 1) : all_docs[i].score >= all_docs[i+1].score
    /\ (pc \notin {"idle", "fusing"} /\ vector_results = <<>> /\ keyword_results = <<>>) =>
          /\ pc = "done"
          /\ error = NoError
          /\ all_docs = <<>>
          /\ result = <<>>

(* C27 witness: two keyword hits of different scores and no vector hit,    *)
(* under a positive keyword weight                                         *)
C27_Witness ==
    /\ Fused
    /\ vector_results = <<>>
    /\ Len(keyword_results) = 2
    /\ keyword_results[1]._score > keyword_results[2]._score
    /\ keyword_weight > 0

(* the ranking position of a document id *)
Rank(docs, id) == CHOOSE i \in 1..Len(docs) : docs[i].id = id

(* C28: with the hit lists and keyword_weight fixed, a larger              *)
(* vector_weight never puts a document with a nonzero vector_score behind  *)
(* a document with a zero or absent vector_score that it preceded.         *)
C28_FusionMonotone ==
    Fused =>
      \A vw2 \in { w \in FusionWeights : w > vector_weight } :
        LET hi == MergeResults(vector_results, keyword_results, vw2, keyword_weight)
        IN \A i, j \in 1..Len(all_docs) :
             (/\ OrZero(all_docs[i].vector_score) # 0
              /\ OrZero(all_docs[j].vector_score) = 0
              /\ i < j)
               => Rank(hi, all_docs[i].id) < Rank(hi, all_docs[j].id)

(* C28 witness: a fused list with a nonzero, a zero and an absent          *)
(* vector_score, under a weight that can still grow                        *)
C28_Witness ==
    /\ Fused
    /\ vector_weight = 0
    /\ \E i, j, k \in 1..Len(all_docs) :
          /\ all_docs[i].vector_score \notin {0, None}
          /\ all_docs[j].vector_score = 0
          /\ all_docs[k].vector_score = None

----------------------------------------------------------------------------
(* Properties of overlapping calls (checked under ConcSpec)                *)

(* C24: requests on different session ids are independent under any       *)
(* interleaving of /chat and /clear_context calls: the only history a turn *)
(* or a clear changes is that of the session it belongs to.                *)
C24_SessionsIndependent ==
    [][ \A s \in Sessions :
          conversation_chains'[s].chat_history # conversation_chains[s].chat_history
            => /\ last_turn'.op \in {"chat", "clear"}
               /\ last_turn'.session_id = s
      ]_vars

(* C24 witness: a turn has completed on one session while a call on        *)
(* another session, which has a history, is suspended                      *)
C24_Witness ==
    /\ last_turn.op = "chat"
    /\ last_turn.session_id \in Sessions
    /\ conversation_chains[last_turn.session_id].chat_history # <<>>
    /\ \E p \in pending :
          /\ p.session_id # last_turn.session_id
          /\ conversation_chains[p.session_id].chat_history # <<>>

----------------------------------------------------------------------------
(* Properties of the search a turn issues (checked under ChatSpec)         *)

(* C25: on each turn the similarity search is issued against the index     *)
(* derived from the session's kb_type, with the embedding of the question  *)
(* as the query vector and settings.TOP_K_RESULTS as the limit.            *)
C25_SearchScopedToKbType ==
    (last_turn.op = "chat" /\ es_request # NoRequest) =>
        /\ es_request.index =
              IndexOf(conversation_chains[last_turn.session_id].kb_type)
        /\ es_request.query_vector \in { Embedding(q) : q \in Questions }
        /\ es_request.size = TopKResults

----------------------------------------------------------------------------
(* Properties of the recommendations router (checked under RecSpec)        *)

RecommendedIds == { recommendations[i] : i \in 1..Len(recommendations) }

(* the questions the kb_type filter of the last call lets through *)
MatchingIds == QuestionIds(FilterByKbType(QuestionFile, rec_call.kb_type))

(* C29: the returned questions are pairwise distinct and match the filter; *)
(* every returned id is in the shown set afterwards, whatever              *)
(* exclude_shown; with exclude_shown=true they number at most min(count,   *)
(* available), and none of them was in the shown set before the call       *)
(* unless every matching question had been shown, in which case the shown  *)
(* set was reset, for all kb types, before the returned ids were added.    *)
C29_RecommendationsAvoidShown ==
    rec_call.outcome = "ok" =>
      LET before  == rec_call.shown_before
          unshown == MatchingIds \ before
      IN /\ \A i, j \in 1..Len(recommendations) :
                i # j => recommendations[i] # recommendations[j]
         /\ RecommendedIds \subseteq MatchingIds
         /\ RecommendedIds \subseteq shown_question_ids
         /\ ~rec_call.exclude_shown => shown_question_ids = before \cup RecommendedIds
         /\ rec_call.exclude_shown =>
              IF MatchingIds = {}
              THEN recommendations = <<>> /\ shown_question_ids = before
              ELSE IF unshown # {}
              THEN /\ Len(recommendations) = Min(rec_call.count, Cardinality(unshown))
                   /\ RecommendedIds \cap before = {}
                   /\ shown_question_ids = before \cup RecommendedIds
              ELSE /\ Len(recommendations) = Min(rec_call.count, Cardinality(MatchingIds))
                   /\ shown_question_ids = RecommendedIds

(* C29 witness: every legal question had been shown, and a business one    *)
(* too; the call for legal questions reset the set and returned one        *)
C29_Witness ==
    /\ rec_call.outcome = "ok"
    /\ rec_call.exclude_shown
    /\ rec_call.kb_type = "legal"
    /\ rec_call.shown_before = {"r1", "r3"}
    /\ recommendations = <<"r3">>
    /\ shown_question_ids = {"r3"}

----------------------------------------------------------------------------
(* Properties of the ResourceManager (checked under PoolSpec)              *)

(* C30: after any sequence of get_es_client, es_session, close_all_clients *)
(* and cleanup calls the pool holds at most max_connections clients and no *)
(* client that has been closed; a get_es_client with no cleanup removal    *)
(* and no close since the previous one returns the same client; leaving an *)
(* es_session sets last_used to the current time and closes nothing.       *)
C30_PoolConsistent ==
    /\ [](/\ Cardinality(DOMAIN es_clients) <= max_connections
          /\ \A k \in DOMAIN es_clients : es_clients[k].client \notin closed)
    /\ [][ /\ (/\ rm_last'.op \in {"get", "session_enter"}
                /\ rm_last'.outcome = "ok"
                /\ ~rm_last'.cleaned
                /\ last_returned # NoClient)
                  => rm_last'.client = last_returned
           /\ (open_sessions' # open_sessions /\ open_sessions' \subseteq open_sessions)
                  => /\ closed' = closed
                     /\ DOMAIN es_clients' = DOMAIN es_clients
                     /\ \A k \in DOMAIN es_clients :
                           /\ es_clients'[k].client = es_clients[k].client
                           /\ es_clients'[k].last_used = now
         ]_vars

(* C30 witness: a session has been left, some time after it was entered,   *)
(* on a pool whose earlier client was closed by a cleanup                  *)
C30_Witness ==
    /\ rm_last.op = "session_exit"
    /\ closed # {}
    /\ ClientKey \in DOMAIN es_clients
    /\ es_clients[ClientKey].last_used = now
    /\ es_clients[ClientKey].client = rm_last.client
    /\ last_cleanup > 0

====
